---------------------------- MODULE Spec2Model ----------------------------
(***************************************************************************)
(* Round 2 of the Varuna AHP prover (SoterHQ/snarkVM):                     *)
(*   algorithms/src/snark/varuna/ahp/prover/round_functions/second.rs      *)
(* with the ledger inclusion proof and the ordering of program imports:    *)
(*   dpc/src/ledger/ledger_proof.rs                                        *)
(*   .vm/src/program/import/mod.rs                                         *)
(*                                                                         *)
(* The prime field is scaled down to F_17 (two-adicity 4, so evaluation    *)
(* domains of size 1, 2, 4, 8 and 16 exist).  Polynomials are dense        *)
(* coefficient sequences, lowest degree first, as DensePolynomial.coeffs.  *)
(***************************************************************************)
EXTENDS Integers, Sequences, FiniteSets, Bags, TLC

\* ------------------------------------------------------------------------
\* Bounds of the model
\* ------------------------------------------------------------------------
MaxCircuits == 2
MaxInstances == 2
MaxJobs == 3
MaxCells == 6
MaxLogConstraintDomain == 2
MaxInvocations == 2
MaxIdentities == 1

\* ------------------------------------------------------------------------
\* The field F (F: PrimeField), scaled down
\* ------------------------------------------------------------------------
FieldModulus == 17
TwoAdicity == 4
TwoAdicRootOfUnity == 3

Fe == 0 .. (FieldModulus - 1)

FAdd(a, b) == (a + b) % FieldModulus
FSub(a, b) == (a + FieldModulus - b) % FieldModulus
FMul(a, b) == (a * b) % FieldModulus

RECURSIVE IntPow(_, _)
IntPow(b, e) == IF e = 0 THEN 1 ELSE b * IntPow(b, e - 1)

RECURSIVE FPow(_, _)
FPow(b, e) == IF e = 0 THEN 1 ELSE FMul(b, FPow(b, e - 1))

\* a^(p-2), tabulated
InverseTable == [a \in Fe |-> FPow(a, FieldModulus - 2)]

FInv(a) == InverseTable[a]

\* ------------------------------------------------------------------------
\* EvaluationDomain: the multiplicative subgroup of a power-of-two size
\* ------------------------------------------------------------------------
RECURSIVE NextPowerOfTwoFrom(_, _)
NextPowerOfTwoFrom(k, s) == IF s >= k THEN s ELSE NextPowerOfTwoFrom(k, 2 * s)

\* EvaluationDomain::new(num_coeffs).size()
DomainSizeFor(num_coeffs) == NextPowerOfTwoFrom(num_coeffs, 1)

LargestDomain == IntPow(2, TwoAdicity)

\* EvaluationDomain::new returns None past the field's two-adicity
DomainExists(size) == size <= LargestDomain

\* the powers of the 2^TwoAdicity-th root of unity, tabulated: entry i is
\* root^(i-1)
RootPowers == [i \in 1 .. LargestDomain |-> FPow(TwoAdicRootOfUnity, i - 1)]

\* group_gen^e for the domain of the given size
GroupGenPow(size, e) == RootPowers[(((LargestDomain \div size) * e) % LargestDomain) + 1]

GroupGen(size) == GroupGenPow(size, 1)

\* domain.elements(): 1, g, g^2, ..., g^(size-1)
DomainElements(size) == [i \in 1 .. size |-> GroupGenPow(size, i - 1)]

\* ------------------------------------------------------------------------
\* DensePolynomial
\* ------------------------------------------------------------------------
Zero == << >>

RECURSIVE Trim(_)
\* DensePolynomial::from_coefficients_vec: drops the leading zero coefficients
Trim(p) ==
    IF Len(p) = 0 THEN p
    ELSE IF p[Len(p)] = 0 THEN Trim(SubSeq(p, 1, Len(p) - 1))
    ELSE p

\* DensePolynomial::is_zero
IsZero(p) == \A i \in 1 .. Len(p) : p[i] = 0

\* DensePolynomial::degree (0 for the zero polynomial)
Degree(p) == IF IsZero(p) THEN 0 ELSE Len(Trim(p)) - 1

Coeff(p, i) == IF i <= Len(p) THEN p[i] ELSE 0

RECURSIVE EvalFrom(_, _, _)
EvalFrom(p, x, i) ==
    IF i > Len(p) THEN 0 ELSE FAdd(p[i], FMul(x, EvalFrom(p, x, i + 1)))

\* DensePolynomial::evaluate
Evaluate(p, x) == EvalFrom(p, x, 1)

\* vec.resize(n, F::zero())
Resize(v, n) == [i \in 1 .. n |-> IF i <= Len(v) THEN v[i] ELSE 0]

\* poly.evaluate_over_domain_by_ref(domain).evaluations
EvaluateOverDomain(p, size) ==
    [i \in 1 .. size |-> Evaluate(p, GroupGenPow(size, i - 1))]

RECURSIVE IfftSum(_, _, _, _)
IfftSum(evals, size, k, j) ==
    IF j > size THEN 0
    ELSE FAdd(FMul(evals[j], GroupGenPow(size, size * size - (j - 1) * (k - 1))),
              IfftSum(evals, size, k, j + 1))

\* the inverse FFT over the domain: coefficients from evaluations
Ifft(evals, size) ==
    [k \in 1 .. size |-> FMul(FInv(size % FieldModulus), IfftSum(evals, size, k, 1))]

\* Evaluations::interpolate_with_pc_by_ref: resize to the domain, inverse
\* FFT, DensePolynomial::from_coefficients_vec
Interpolate(evaluations, size) == Trim(Ifft(Resize(evaluations, size), size))

\* &poly * scalar
Scale(p, s) == [i \in 1 .. Len(p) |-> FMul(p[i], s)]

\* a += &b on DensePolynomial
PolyAdd(a, b) ==
    LET n == IF Len(a) >= Len(b) THEN Len(a) ELSE Len(b)
    IN  Trim([i \in 1 .. n |-> FAdd(Coeff(a, i), Coeff(b, i))])

\* PolyMultiplier::multiply for two polynomials: both are evaluated over the
\* domain that holds the product, multiplied pointwise and interpolated
\* back.  The result is None when the field has no such domain.
PolyMultiply(a, b) ==
    LET size == DomainSizeFor((Degree(a) + 1) + (Degree(b) + 1))
    IN  IF ~DomainExists(size) THEN [some |-> FALSE]
        ELSE LET ea == EvaluateOverDomain(a, size)
                 eb == EvaluateOverDomain(b, size)
             IN  [some |-> TRUE,
                  val |-> Trim(Ifft([i \in 1 .. size |-> FMul(ea[i], eb[i])], size))]

RECURSIVE StrideSum(_, _, _)
StrideSum(p, i, n) == IF i > Len(p) THEN 0 ELSE FAdd(p[i], StrideSum(p, i + n, n))

\* poly.divide_by_vanishing_poly(domain): quotient and remainder of the
\* division by X^size - 1
DivideByVanishingPoly(p, size) ==
    IF Len(Trim(p)) <= size
    THEN [quotient |-> Zero, remainder |-> Trim(p)]
    ELSE [quotient  |-> Trim([i \in 1 .. (Len(p) - size) |-> StrideSum(p, i + size, size)]),
          remainder |-> Trim([i \in 1 .. size |-> StrideSum(p, i, size)])]

\* ------------------------------------------------------------------------
\* Option and Result values
\* ------------------------------------------------------------------------
None == [some |-> FALSE]
Some(v) == [some |-> TRUE, val |-> v]

Ok(p) == [tag |-> "Ok", poly |-> p]
Err(e) == [tag |-> "Err", err |-> e]
Panicked(why) == [tag |-> "Panic", why |-> why]

Min(a, b) == IF a <= b THEN a ELSE b

\* ------------------------------------------------------------------------
\* State of the model
\* ------------------------------------------------------------------------
VARIABLES
    input,          \* what the caller supplied: circuits, witnesses, message
    mode,           \* the build: debug assertions on or off, SM::ZK
    state,          \* prover::State: circuit_specific_states, max_constraint_domain
    owner,          \* who holds the prover state: "caller", "round" or "dropped"
    pc,             \* position of prover_second_round
    job_pool,       \* the ExecutionPool's jobs, in the order they were added
    results,        \* per job: None, or Some(result) once the job has run
    parts,          \* the partial results the reduction still has to combine
    identities,     \* how many identity accumulators the reduction has created
    outcome,        \* what prover_second_round gave its caller
    invocations,    \* how many times prover_second_round was called
    taken,          \* per circuit: how many times its witness was extracted
    jobs_run,       \* jobs executed by the current invocation
    checks_run,     \* interpolation round-trip checks evaluated by those jobs
    ledger,         \* a call of LedgerProof::new or read_le: arguments and result
    imports         \* a comparison of two Imports: operands and results

\* the variables of round 2 of the prover
roundVars == << input, mode, state, owner, pc, job_pool, results, parts, identities,
                outcome, invocations, taken, jobs_run, checks_run >>

vars == << roundVars, ledger, imports >>

\* no call of that part of the program is under way
NotInUse == [pc |-> "unused"]

\* ------------------------------------------------------------------------
\* second.rs
\* ------------------------------------------------------------------------

\* AHPForR1CS::num_second_round_oracles
num_second_round_oracles == 1

\* PolynomialInfo::new(label, degree_bound, hiding_bound)
PolynomialInfo(label, degree_bound, hiding_bound) ==
    [label |-> label, degree_bound |-> degree_bound, hiding_bound |-> hiding_bound]

\* AHPForR1CS::second_round_polynomial_info: label -> info
second_round_polynomial_info ==
    LET infos == { PolynomialInfo("h_0", None, None) }
    IN  [l \in { info.label : info \in infos } |->
            CHOOSE info \in infos : info.label = l]

\* LabeledPolynomial::new(label, polynomial, degree_bound, hiding_bound)
LabeledPolynomial(label, polynomial, degree_bound, hiding_bound) ==
    [info |-> PolynomialInfo(label, degree_bound, hiding_bound),
     polynomial |-> polynomial]

\* variant of SecondOracles: the oracle records its degree as a degree bound
SecondOraclesWithBound(h_0) ==
    [h_0 |-> LabeledPolynomial("h_0", h_0, Some(Degree(h_0)), None)]

\* prover::SecondOracles { h_0: LabeledPolynomial::new("h_0", h_0, None, None) }
SecondOracles(h_0) == [h_0 |-> LabeledPolynomial("h_0", h_0, None, None)]

\* SecondOracles::matches_info: every oracle's info is the table's entry
\* for its label
MatchesInfo(oracles, info) ==
    /\ oracles.h_0.info.label \in DOMAIN info
    /\ info[oracles.h_0.info.label] = oracles.h_0.info

\* Self::zk_bound(): Some(1) in a hiding mode, None otherwise
ZkBound == IF mode.zk THEN Some(1) ELSE None

UnwrapOr(opt, default) == IF opt.some THEN opt.val ELSE default

\* the bound asserted on h_0, in usize arithmetic
DegreeBound(max_constraint_domain) ==
    2 * max_constraint_domain + 2 * UnwrapOr(ZkBound, 0) - 2

\* variant of DegreeAssertHolds: the bound without its - 2
DegreeAssertLoose(h_0, max_constraint_domain) ==
    Degree(h_0) <= DegreeBound(max_constraint_domain) + 2

\* assert!(h_0.degree() <= 2 * max_constraint_domain.size() + 2 * zk_bound.unwrap_or(0) - 2)
DegreeAssertHolds(h_0, max_constraint_domain) ==
    Degree(h_0) <= DegreeBound(max_constraint_domain)

\* variant of calculate_z_m: the evaluations are taken as the coefficients
\* (DensePolynomial::from_coefficients_vec) and never interpolated
calculate_z_m_from_coefficients(evaluations, constraint_domain) ==
    LET poly == Trim(evaluations)
        back == EvaluateOverDomain(poly, constraint_domain)
        same == \A i \in 1 .. Min(Len(back), Len(evaluations)) :
                    evaluations[i] = back[i]
    IN  [poly |-> poly, checked |-> mode.debug, panics |-> mode.debug /\ ~same]

\* variant of calculate_z_m: the round-trip check is an assert!, compiled
\* into every build
calculate_z_m_asserting(evaluations, constraint_domain) ==
    LET poly == Interpolate(evaluations, constraint_domain)
        back == EvaluateOverDomain(poly, constraint_domain)
        same == \A i \in 1 .. Min(Len(back), Len(evaluations)) :
                    evaluations[i] = back[i]
    IN  [poly |-> poly, checked |-> TRUE, panics |-> ~same]

\* calculate_z_m: interpolate the evaluations over the constraint domain;
\* the round-trip check is a debug_assert!, compiled only into debug builds
calculate_z_m(evaluations, constraint_domain) ==
    LET poly == Interpolate(evaluations, constraint_domain)
        back == EvaluateOverDomain(poly, constraint_domain)
        \* .into_iter().zip(&evals.evaluations).all(|(z, e)| *e == z)
        same == \A i \in 1 .. Min(Len(back), Len(evaluations)) :
                    evaluations[i] = back[i]
    IN  [poly |-> poly,
         checked |-> mode.debug,
         panics |-> mode.debug /\ ~same]

\* variant of ZipSubtract: *ab += c
ZipSubtractAdds(rowcheck, z_c) ==
    [i \in 1 .. Len(rowcheck) |->
        IF i <= Len(z_c) THEN FAdd(rowcheck[i], z_c[i]) ELSE rowcheck[i]]

\* cfg_iter_mut!(rowcheck.coeffs).zip(&z_c.coeffs).for_each(|(ab, c)| *ab -= c)
ZipSubtract(rowcheck, z_c) ==
    [i \in 1 .. Len(rowcheck) |->
        IF i <= Len(z_c) THEN FSub(rowcheck[i], z_c[i]) ELSE rowcheck[i]]

\* apply_randomized_selector(poly, combiner, target_domain, src_domain,
\* remainder_witness): without a remainder witness the polynomial is divided
\* by the vanishing polynomial of the source domain, a nonzero remainder is
\* an error, and the quotient is scaled by combiner * |src| / |target|
ApplyRandomizedSelector(poly, combiner, target_domain, src_domain, remainder_witness) ==
    LET d == DivideByVanishingPoly(poly, src_domain)
        multiplier == FMul(combiner, FMul(src_domain % FieldModulus,
                                          FInv(target_domain % FieldModulus)))
    IN  IF remainder_witness
        THEN [tag |-> "Ok", h |-> Scale(d.quotient, multiplier),
              remainder |-> Some(Scale(d.remainder, multiplier))]
        ELSE IF ~IsZero(d.remainder)
        THEN [tag |-> "Err"]
        ELSE [tag |-> "Ok", h |-> Trim(Scale(d.quotient, multiplier)),
              remainder |-> None]

\* the rowcheck residual of one instance, as the job computes it
Rowcheck(z_a, z_b, z_c) ==
    LET product == PolyMultiply(z_a, z_b)
    IN  IF product.some THEN Some(ZipSubtract(product.val, z_c)) ELSE None

\* instance_lhs = zero; instance_lhs += &(&rowcheck * instance_combiner)
InstanceLhs(rowcheck, instance_combiner) ==
    PolyAdd(Zero, Scale(rowcheck, instance_combiner))

\* poly.mul_by_vanishing_poly(domain): poly * (X^size - 1)
MulByVanishingPoly(p, size) ==
    Trim([i \in 1 .. (Len(p) + size) |->
            FSub(IF i > size THEN p[i - size] ELSE 0, Coeff(p, i))])

\* variant of RunJobBody: the residual is multiplied by the vanishing
\* polynomial where the selector divides by it
RunJobBodyMultiplies(job) ==
    LET za == calculate_z_m(job.z_a, job.constraint_domain)
        zb == calculate_z_m(job.z_b, job.constraint_domain)
        zc == calculate_z_m(job.z_c, job.constraint_domain)
        rowcheck == Rowcheck(za.poly, zb.poly, zc.poly)
    IN  IF ~rowcheck.some THEN Panicked("multiply")
        ELSE Ok(MulByVanishingPoly(
                    Scale(InstanceLhs(rowcheck.val, job.instance_combiner),
                          job.circuit_combiner),
                    job.constraint_domain))

\* variant of RunJobBody: the selector's error is swallowed and the quotient
\* of the division is kept
RunJobBodyDropsRemainder(job) ==
    LET za == calculate_z_m(job.z_a, job.constraint_domain)
        zb == calculate_z_m(job.z_b, job.constraint_domain)
        zc == calculate_z_m(job.z_c, job.constraint_domain)
        rowcheck == Rowcheck(za.poly, zb.poly, zc.poly)
    IN  IF za.panics \/ zb.panics \/ zc.panics THEN Panicked("debug_assert")
        ELSE IF ~rowcheck.some THEN Panicked("multiply")
        ELSE LET instance_lhs == InstanceLhs(rowcheck.val, job.instance_combiner)
                 sel == ApplyRandomizedSelector(instance_lhs, job.circuit_combiner,
                            job.max_constraint_domain, job.constraint_domain, TRUE)
             IN  Ok(Trim(sel.h))

\* the closure handed to job_pool.add_job
RunJobBody(job) ==
    LET za == calculate_z_m(job.z_a, job.constraint_domain)
        zb == calculate_z_m(job.z_b, job.constraint_domain)
        zc == calculate_z_m(job.z_c, job.constraint_domain)
        rowcheck == Rowcheck(za.poly, zb.poly, zc.poly)
    IN  IF za.panics \/ zb.panics \/ zc.panics THEN Panicked("debug_assert")
        ELSE IF ~rowcheck.some THEN Panicked("multiply")
        ELSE LET instance_lhs == InstanceLhs(rowcheck.val, job.instance_combiner)
                 sel == ApplyRandomizedSelector(instance_lhs, job.circuit_combiner,
                            job.max_constraint_domain, job.constraint_domain, FALSE)
             IN  IF sel.tag = "Err"
                 THEN Err([kind |-> "remainder", circuit |-> job.circuit, j |-> job.j])
                 ELSE IF sel.remainder.some THEN Panicked("remainder")
                 ELSE Ok(sel.h)

\* how many of the job's three calculate_z_m calls evaluate the round-trip check
ChecksOfJob(job) ==
    LET ran(e) == IF calculate_z_m(e, job.constraint_domain).checked THEN 1 ELSE 0
    IN  ran(job.z_a) + ran(job.z_b) + ran(job.z_c)

\* itertools::izip!(instance_combiners, z_a, z_b, z_c).enumerate(): as many
\* items as the shortest of the four
JobsOfCircuit(c, z_a, z_b, z_c, combiners, constraint_domain, max_constraint_domain) ==
    LET n == Min(Min(Len(combiners.instance_combiners), Len(z_a)),
                 Min(Len(z_b), Len(z_c)))
    IN  [j \in 1 .. n |->
            [circuit |-> c, j |-> j - 1,
             instance_combiner |-> combiners.instance_combiners[j],
             z_a |-> z_a[j], z_b |-> z_b[j], z_c |-> z_c[j],
             circuit_combiner |-> combiners.circuit_combiner,
             constraint_domain |-> constraint_domain,
             max_constraint_domain |-> max_constraint_domain]]

RECURSIVE BuildJobsKeepsWitness(_, _, _, _, _)
\* variant of BuildJobs: the witness is cloned out of its slot, not taken
BuildJobsKeepsWitness(c, css, batch_combiners, max_constraint_domain, jobs) ==
    IF c > Len(css) THEN [panic |-> None, css |-> css, jobs |-> jobs, took |-> {}]
    ELSE LET s == css[c]
         IN  IF ~s.z_a.some \/ ~s.z_b.some \/ ~s.z_c.some
             THEN [panic |-> Some("unwrap"), css |-> css, jobs |-> jobs, took |-> {}]
             ELSE IF c \notin DOMAIN batch_combiners
             THEN [panic |-> Some("missing combiner"), css |-> css,
                   jobs |-> jobs, took |-> {c}]
             ELSE LET rest == BuildJobsKeepsWitness(c + 1, css, batch_combiners,
                                  max_constraint_domain,
                                  jobs \o JobsOfCircuit(c, s.z_a.val, s.z_b.val,
                                      s.z_c.val, batch_combiners[c],
                                      s.constraint_domain, max_constraint_domain))
                  IN  [rest EXCEPT !.took = rest.took \cup {c}]

RECURSIVE BuildJobsResizesDomain(_, _, _, _, _)
\* variant of BuildJobs: a circuit's constraint domain is set to the largest
\* one while its witness is taken
BuildJobsResizesDomain(c, css, batch_combiners, max_constraint_domain, jobs) ==
    IF c > Len(css) THEN [panic |-> None, css |-> css, jobs |-> jobs, took |-> {}]
    ELSE LET s == css[c]
             after_a == [css EXCEPT ![c].z_a = None]
             after_b == [after_a EXCEPT ![c].z_b = None]
             after_c == [after_b EXCEPT ![c].z_c = None,
                                        ![c].constraint_domain = max_constraint_domain]
         IN  IF ~s.z_a.some
             THEN [panic |-> Some("unwrap"), css |-> css, jobs |-> jobs, took |-> {}]
             ELSE IF ~s.z_b.some
             THEN [panic |-> Some("unwrap"), css |-> after_a, jobs |-> jobs, took |-> {c}]
             ELSE IF ~s.z_c.some
             THEN [panic |-> Some("unwrap"), css |-> after_b, jobs |-> jobs, took |-> {c}]
             ELSE IF c \notin DOMAIN batch_combiners
             THEN [panic |-> Some("missing combiner"), css |-> after_c,
                   jobs |-> jobs, took |-> {c}]
             ELSE LET rest == BuildJobsResizesDomain(c + 1, after_c, batch_combiners,
                                  max_constraint_domain,
                                  jobs \o JobsOfCircuit(c, s.z_a.val, s.z_b.val,
                                      s.z_c.val, batch_combiners[c],
                                      s.constraint_domain, max_constraint_domain))
                  IN  [rest EXCEPT !.took = rest.took \cup {c}]

RECURSIVE BuildJobs(_, _, _, _, _)
\* the for loop over state.circuit_specific_states.iter_mut(): each step
\* takes the three witness slots, looks the combiners up and adds the jobs
BuildJobs(c, css, batch_combiners, max_constraint_domain, jobs) ==
    IF c > Len(css) THEN [panic |-> None, css |-> css, jobs |-> jobs, took |-> {}]
    ELSE LET s == css[c]
             after_a == [css EXCEPT ![c].z_a = None]
             after_b == [after_a EXCEPT ![c].z_b = None]
             after_c == [after_b EXCEPT ![c].z_c = None]
         IN  IF ~s.z_a.some
             THEN [panic |-> Some("unwrap"), css |-> css, jobs |-> jobs, took |-> {}]
             ELSE IF ~s.z_b.some
             THEN [panic |-> Some("unwrap"), css |-> after_a, jobs |-> jobs, took |-> {c}]
             ELSE IF ~s.z_c.some
             THEN [panic |-> Some("unwrap"), css |-> after_b, jobs |-> jobs, took |-> {c}]
             ELSE IF c \notin DOMAIN batch_combiners
             THEN [panic |-> Some("missing combiner"), css |-> after_c,
                   jobs |-> jobs, took |-> {c}]
             ELSE LET rest == BuildJobs(c + 1, after_c, batch_combiners,
                                  max_constraint_domain,
                                  jobs \o JobsOfCircuit(c, s.z_a.val, s.z_b.val,
                                      s.z_c.val, batch_combiners[c],
                                      s.constraint_domain, max_constraint_domain))
                  IN  [rest EXCEPT !.took = rest.took \cup {c}]

\* variant of ReduceOp: a failed operand is skipped
ReduceOpSkipsErrors(a, b) ==
    IF a.tag = "Err" THEN b
    ELSE IF b.tag = "Err" THEN a
    ELSE Ok(PolyAdd(b.poly, a.poly))

\* variant of ReduceOp: b -= &a
ReduceOpSubtracts(a, b) ==
    IF a.tag = "Err" THEN a
    ELSE IF b.tag = "Err" THEN b
    ELSE Ok(PolyAdd(b.poly, Scale(a.poly, FieldModulus - 1)))

\* the closure of cfg_reduce!:  a.and_then(|a| b.map(|mut b| { b += &a; b }))
ReduceOp(a, b) ==
    IF a.tag = "Err" THEN a
    ELSE IF b.tag = "Err" THEN b
    ELSE Ok(PolyAdd(b.poly, a.poly))

\* || Ok(DensePolynomial::zero())
ReduceIdentity == Ok(Zero)

\* ------------------------------------------------------------------------
\* Inputs: the prover state after round 1 and the verifier's first message
\* ------------------------------------------------------------------------
DomainSizes == { IntPow(2, k) : k \in 0 .. MaxLogConstraintDomain }

CircuitShapes == [n : DomainSizes, batch : 1 .. MaxInstances]

RECURSIVE SumBatch(_)
SumBatch(s) == IF s = << >> THEN 0 ELSE Head(s).batch + SumBatch(Tail(s))

RECURSIVE SumCells(_)
SumCells(s) == IF s = << >> THEN 0 ELSE Head(s).n * Head(s).batch + SumCells(Tail(s))

RECURSIVE MaxDomain(_)
MaxDomain(s) ==
    IF s = << >> THEN 1
    ELSE IF Head(s).n >= MaxDomain(Tail(s)) THEN Head(s).n ELSE MaxDomain(Tail(s))

\* the circuits of a proof: each with its constraint domain and batch size
Shapes ==
    { s \in UNION { [1 .. k -> CircuitShapes] : k \in 1 .. MaxCircuits } :
        SumBatch(s) <= MaxJobs /\ SumCells(s) <= MaxCells }

ZeroCol(n) == [i \in 1 .. n |-> 0]
UnitCol(n) == [i \in 1 .. n |-> IF i = 1 THEN 1 ELSE 0]
RampCol(n) == [i \in 1 .. n |-> i + 1]

\* (Az) o (Bz)
Hadamard(a, b) == [i \in 1 .. Len(a) |-> FMul(a[i], b[i])]

\* one entry of z_c off by one (k = 0: none)
Corrupt(c, k) == [i \in 1 .. Len(c) |-> IF i = k THEN FAdd(c[i], 1) ELSE c[i]]

\* the witness triples (z_a, z_b, z_c) an instance is drawn from: z_c is
\* z_a o z_b, or that with its first entry corrupted
Triples(n) ==
    { [a |-> a, b |-> RampCol(n), c |-> Corrupt(Hadamard(a, RampCol(n)), k)] :
        a \in { ZeroCol(n), UnitCol(n) }, k \in { 0, 1 } }

DefaultTriple(n) ==
    [a |-> UnitCol(n), b |-> RampCol(n), c |-> Hadamard(UnitCol(n), RampCol(n))]

RECURSIVE WitnessesFrom(_, _)
WitnessesFrom(s, i) ==
    IF i > Len(s) THEN { << >> }
    ELSE { << t >> \o rest : t \in [1 .. s[i].batch -> Triples(s[i].n)],
                             rest \in WitnessesFrom(s, i + 1) }

WitnessesFor(s) == WitnessesFrom(s, 1)

DefaultWitness(s) ==
    [i \in 1 .. Len(s) |-> [j \in 1 .. s[i].batch |-> DefaultTriple(s[i].n)]]

CombinerSeeds == { 1, 2 }

\* verifier::BatchCombiners of circuit i with len instance combiners
BatchCombiners(seed, i, len) ==
    [circuit_combiner |-> FPow(seed, i),
     instance_combiners |-> [j \in 1 .. len |-> FPow(seed, i + j)]]

\* what can be wrong with the message's entry of one circuit
Defects(s) ==
    { [circuit |-> 0, kind |-> "none"] } \cup
    { [circuit |-> c, kind |-> k] : c \in 1 .. Len(s), k \in { "missing", "short", "long" } }

\* verifier::FirstMessage.batch_combiners: CircuitId -> BatchCombiners
MessageFor(s, seed, defect) ==
    [i \in { c \in 1 .. Len(s) : ~(defect.circuit = c /\ defect.kind = "missing") } |->
        BatchCombiners(seed, i,
            IF defect.circuit = i /\ defect.kind = "short" THEN s[i].batch - 1
            ELSE IF defect.circuit = i /\ defect.kind = "long" THEN s[i].batch + 1
            ELSE s[i].batch)]

\* The key of an entry of state.circuit_specific_states: the circuit of the
\* indexer, with its identifier and the tables the jobs borrow (lines 86 to
\* 90).  The tables hold the powers of the domain's generator and of its
\* inverse.
CircuitOf(id, n) ==
    [id |-> id,
     fft_precomputation |-> DomainElements(n),
     ifft_precomputation |-> [i \in 1 .. n |-> FInv(DomainElements(n)[i])]]

\* prover::State as round 1 leaves it: every witness slot is Some
StateFor(s, w) ==
    [circuit_specific_states |->
        [i \in 1 .. Len(s) |->
            [circuit |-> CircuitOf(i, s[i].n),
             z_a |-> Some([j \in 1 .. s[i].batch |-> w[i][j].a]),
             z_b |-> Some([j \in 1 .. s[i].batch |-> w[i][j].b]),
             z_c |-> Some([j \in 1 .. s[i].batch |-> w[i][j].c]),
             constraint_domain |-> s[i].n]],
     max_constraint_domain |-> MaxDomain(s)]

NoOutcome == [tag |-> "None"]

Init ==
    \E s \in Shapes, seed \in CombinerSeeds, debug \in BOOLEAN, zk \in BOOLEAN :
    \E defect \in Defects(s), w \in WitnessesFor(s) :
        /\ defect.kind # "none" => (w = DefaultWitness(s) /\ seed = 2)
        /\ input = [shape |-> s, witness |-> w,
                    batch_combiners |-> MessageFor(s, seed, defect)]
        /\ mode = [debug |-> debug, zk |-> zk]
        /\ state = StateFor(s, w)
        /\ owner = "caller"
        /\ pc = "idle"
        /\ job_pool = << >>
        /\ results = << >>
        /\ parts = EmptyBag
        /\ identities = 0
        /\ outcome = NoOutcome
        /\ invocations = 0
        /\ taken = [c \in 1 .. Len(s) |-> 0]
        /\ jobs_run = 0
        /\ checks_run = 0
        /\ ledger = NotInUse
        /\ imports = NotInUse

\* ------------------------------------------------------------------------
\* prover_second_round, step by step
\* ------------------------------------------------------------------------

\* The caller hands its state and the message to prover_second_round, which
\* builds the job list of calculate_rowcheck_witness (lines 76 to 123).
BuildJobList ==
    /\ owner = "caller"
    /\ pc \in { "idle", "returned" }
    /\ invocations < MaxInvocations
    /\ LET b == BuildJobs(1, state.circuit_specific_states, input.batch_combiners,
                          state.max_constraint_domain, << >>)
       IN  /\ state' = [state EXCEPT !.circuit_specific_states = b.css]
           /\ taken' = [c \in DOMAIN taken |->
                            IF c \in b.took THEN taken[c] + 1 ELSE taken[c]]
           /\ IF b.panic.some
              THEN /\ pc' = "returned"
                   /\ outcome' = Panicked(b.panic.val)
                   /\ owner' = "dropped"
                   /\ job_pool' = << >>
                   /\ results' = << >>
              ELSE /\ pc' = "execute"
                   /\ outcome' = NoOutcome
                   /\ owner' = "round"
                   /\ job_pool' = b.jobs
                   /\ results' = [k \in 1 .. Len(b.jobs) |-> None]
    /\ invocations' = invocations + 1
    /\ jobs_run' = 0
    /\ checks_run' = 0
    /\ parts' = EmptyBag
    /\ identities' = 0
    /\ UNCHANGED << ledger, imports, input, mode >>

\* job_pool.execute_all(): a worker runs one of the jobs
RunJob(k) ==
    /\ pc = "execute"
    /\ ~results[k].some
    /\ results' = [results EXCEPT ![k] = Some(RunJobBody(job_pool[k]))]
    /\ jobs_run' = jobs_run + 1
    /\ checks_run' = checks_run + ChecksOfJob(job_pool[k])
    /\ UNCHANGED << ledger, imports, input, mode, state, owner, pc, job_pool, parts, identities,
                    outcome, invocations, taken >>

RECURSIVE SeqToBag(_)
SeqToBag(q) == IF q = << >> THEN EmptyBag ELSE SetToBag({ Head(q) }) (+) SeqToBag(Tail(q))

\* variant of JoinJobs: execute_all returns as soon as one job has finished,
\* with the results there are
JoinJobsEarly ==
    /\ pc = "execute"
    /\ \E k \in 1 .. Len(results) : results[k].some
    /\ LET finished == SelectSeq(results, LAMBDA r : r.some)
       IN  IF \E k \in 1 .. Len(finished) : finished[k].val.tag = "Panic"
           THEN /\ pc' = "returned"
                /\ outcome' = (CHOOSE r \in { finished[k].val : k \in 1 .. Len(finished) } :
                                   r.tag = "Panic")
                /\ owner' = "dropped"
                /\ parts' = parts
           ELSE /\ pc' = "reduce"
                /\ parts' = SeqToBag([k \in 1 .. Len(finished) |-> finished[k].val])
                /\ UNCHANGED << outcome, owner >>
    /\ UNCHANGED << ledger, imports, input, mode, state, job_pool, results, identities,
                    invocations, taken, jobs_run, checks_run >>

\* execute_all returns once every job has finished; a job that panicked
\* takes the round down with it
JoinJobs ==
    /\ pc = "execute"
    /\ \A k \in 1 .. Len(results) : results[k].some
    /\ IF \E k \in 1 .. Len(results) : results[k].val.tag = "Panic"
       THEN /\ pc' = "returned"
            /\ outcome' = (CHOOSE r \in { results[k].val : k \in 1 .. Len(results) } :
                               r.tag = "Panic")
            /\ owner' = "dropped"
            /\ parts' = parts
       ELSE /\ pc' = "reduce"
            /\ parts' = SeqToBag([k \in 1 .. Len(results) |-> results[k].val])
            /\ UNCHANGED << outcome, owner >>
    /\ UNCHANGED << ledger, imports, input, mode, state, job_pool, results, identities,
                    invocations, taken, jobs_run, checks_run >>

\* cfg_reduce!: an accumulator starts from the identity
ReduceFromIdentity ==
    /\ pc = "reduce"
    /\ identities < MaxIdentities
    /\ parts' = parts (+) SetToBag({ ReduceIdentity })
    /\ identities' = identities + 1
    /\ UNCHANGED << ledger, imports, input, mode, state, owner, pc, job_pool, results, outcome,
                    invocations, taken, jobs_run, checks_run >>

\* cfg_reduce!: two partial results are combined, in either order
ReduceCombine ==
    /\ pc = "reduce"
    /\ \E a \in BagToSet(parts), b \in BagToSet(parts) :
        /\ a # b \/ CopiesIn(a, parts) >= 2
        /\ parts' = ((parts (-) SetToBag({ a })) (-) SetToBag({ b }))
                        (+) SetToBag({ ReduceOp(a, b) })
    /\ UNCHANGED << ledger, imports, input, mode, state, owner, pc, job_pool, results, identities,
                    outcome, invocations, taken, jobs_run, checks_run >>

\* variant of ReturnFromRound: the state is borrowed, and is still the
\* caller's when the round fails
ReturnFromRoundKeepsState ==
    /\ pc = "reduce"
    /\ identities >= 1
    /\ BagCardinality(parts) = 1
    /\ LET h_sum == CHOOSE r \in BagToSet(parts) : TRUE
       IN  IF h_sum.tag = "Err"
           THEN outcome' = h_sum
           ELSE IF ~DegreeAssertHolds(h_sum.poly, state.max_constraint_domain)
           THEN outcome' = Panicked("degree")
           ELSE IF ~MatchesInfo(SecondOracles(h_sum.poly), second_round_polynomial_info)
           THEN outcome' = Panicked("matches_info")
           ELSE outcome' = [tag |-> "Ok", oracles |-> SecondOracles(h_sum.poly)]
    /\ owner' = "caller"
    /\ pc' = "returned"
    /\ UNCHANGED << ledger, imports, input, mode, state, job_pool, results, parts,
                    identities, invocations, taken, jobs_run, checks_run >>

\* The reduction is complete: the ? of line 134, the two assertions and the
\* return of prover_second_round (lines 60 to 69).
ReturnFromRound ==
    /\ pc = "reduce"
    /\ identities >= 1
    /\ BagCardinality(parts) = 1
    /\ LET h_sum == CHOOSE r \in BagToSet(parts) : TRUE
       IN  IF h_sum.tag = "Err"
           THEN /\ outcome' = h_sum
                /\ owner' = "dropped"
           ELSE IF ~DegreeAssertHolds(h_sum.poly, state.max_constraint_domain)
           THEN /\ outcome' = Panicked("degree")
                /\ owner' = "dropped"
           ELSE IF ~MatchesInfo(SecondOracles(h_sum.poly), second_round_polynomial_info)
           THEN /\ outcome' = Panicked("matches_info")
                /\ owner' = "dropped"
           ELSE /\ outcome' = [tag |-> "Ok", oracles |-> SecondOracles(h_sum.poly)]
                /\ owner' = "caller"
    /\ pc' = "returned"
    /\ UNCHANGED << ledger, imports, input, mode, state, job_pool, results, parts, identities,
                    invocations, taken, jobs_run, checks_run >>

Next ==
    \/ BuildJobList
    \/ \E k \in 1 .. Len(job_pool) : RunJob(k)
    \/ JoinJobs
    \/ ReduceFromIdentity
    \/ ReduceCombine
    \/ ReturnFromRound

Spec == Init /\ [][Next]_vars

\* the steps the round takes by itself once it was called: the workers of the
\* pool run the jobs, execute_all returns, cfg_reduce! folds, the round returns
RoundStep ==
    \/ \E k \in 1 .. Len(job_pool) : RunJob(k)
    \/ JoinJobs
    \/ ReduceFromIdentity
    \/ ReduceCombine
    \/ ReturnFromRound

\* two circuits of different constraint domains, three instances in all
FairShape == << [n |-> 2, batch |-> 2], [n |-> 1, batch |-> 1] >>

\* the round on FairShape, with every witness the instances can have and a
\* message that holds a combiner for each of them
InitFair ==
    /\ Init
    /\ input.shape = FairShape
    /\ input.batch_combiners = MessageFor(FairShape, 2, [circuit |-> 0, kind |-> "none"])

\* the guards of the steps of RoundStep, read off the actions
RoundStepGuards ==
    \/ pc = "execute" /\ \E k \in 1 .. Len(job_pool) : ~results[k].some
    \/ pc = "execute" /\ \A k \in 1 .. Len(results) : results[k].some
    \/ pc = "reduce" /\ identities < MaxIdentities
    \/ pc = "reduce" /\ BagCardinality(parts) >= 2
    \/ pc = "reduce" /\ identities >= 1 /\ BagCardinality(parts) = 1

\* a step of the round is possible exactly while the round runs
RoundStepEnabled == pc \in { "execute", "reduce" }

\* WF_vars(RoundStep) written out, with RoundStepEnabled for
\* ENABLED <<RoundStep>>_vars: the pool's workers and the thread of the round
\* keep running, so a step of the round that stays possible is taken.
WeakFairnessOfRoundStep == []<>(~RoundStepEnabled) \/ []<><<RoundStep>>_vars

\* Nothing makes the caller call: BuildJobList is under no fairness.
FairSpec == InitFair /\ [][Next]_vars /\ WeakFairnessOfRoundStep

\* ------------------------------------------------------------------------
\* The end of prover_second_round on its own: lines 62 to 69 stand between
\* whatever calculate_rowcheck_witness returns and the caller. The returned
\* polynomial comes out of code that lies outside this file (the selector,
\* the polynomial arithmetic), so here it is any polynomial.
\* ------------------------------------------------------------------------
MaxGuardCoeffs == 4

GuardCoeffValues == { 0, 1, FieldModulus - 1 }

\* the polynomials of at most MaxGuardCoeffs coefficients, as DensePolynomial
\* keeps them (no leading zero)
GuardPolys ==
    UNION { { q \in [1 .. l -> GuardCoeffValues] : l = 0 \/ q[l] # 0 } :
              l \in 0 .. MaxGuardCoeffs }

InitGuard ==
    \E n \in DomainSizes, debug \in BOOLEAN, zk \in BOOLEAN, h_sum \in GuardPolys :
        LET s == << [n |-> n, batch |-> 1] >>
            w == DefaultWitness(s)
            message == MessageFor(s, 2, [circuit |-> 0, kind |-> "none"])
            b == BuildJobs(1, StateFor(s, w).circuit_specific_states, message, n, << >>)
        IN  /\ input = [shape |-> s, witness |-> w, batch_combiners |-> message]
            /\ mode = [debug |-> debug, zk |-> zk]
            /\ state = [StateFor(s, w) EXCEPT !.circuit_specific_states = b.css]
            /\ owner = "round"
            /\ pc = "reduce"
            /\ job_pool = b.jobs
            /\ results = << Some(Ok(h_sum)) >>
            /\ parts = SetToBag({ Ok(h_sum) })
            /\ identities = 1
            /\ outcome = NoOutcome
            /\ invocations = 1
            /\ taken = [c \in 1 .. 1 |-> 1]
            /\ jobs_run = 1
            /\ checks_run = IF debug THEN 3 ELSE 0
            /\ ledger = NotInUse
            /\ imports = NotInUse

NextGuard == ReturnFromRound

SpecGuard == InitGuard /\ [][NextGuard]_vars

\* ------------------------------------------------------------------------
\* The round on one circuit with one instance whose z_a is any column over
\* WitnessValues: the witness is the caller's, and any field vector can
\* stand in it.
\* ------------------------------------------------------------------------
WitnessValues == { 0, 1, 2, FieldModulus - 1 }

WideTriples(n) ==
    { [a |-> a, b |-> RampCol(n), c |-> Corrupt(Hadamard(a, RampCol(n)), k)] :
        a \in [1 .. n -> WitnessValues], k \in { 0, 1 } }

InitWide ==
    \E n \in DomainSizes, debug \in BOOLEAN, zk \in BOOLEAN :
    \E t \in WideTriples(n) :
        LET s == << [n |-> n, batch |-> 1] >>
            w == << << t >> >>
        IN  /\ input = [shape |-> s, witness |-> w,
                        batch_combiners |->
                            MessageFor(s, 2, [circuit |-> 0, kind |-> "none"])]
            /\ mode = [debug |-> debug, zk |-> zk]
            /\ state = StateFor(s, w)
            /\ owner = "caller"
            /\ pc = "idle"
            /\ job_pool = << >>
            /\ results = << >>
            /\ parts = EmptyBag
            /\ identities = 0
            /\ outcome = NoOutcome
            /\ invocations = 0
            /\ taken = [c \in 1 .. 1 |-> 0]
            /\ jobs_run = 0
            /\ checks_run = 0
            /\ ledger = NotInUse
            /\ imports = NotInUse

SpecWide == InitWide /\ [][Next]_vars

\* ------------------------------------------------------------------------
\* ledger_proof.rs
\* ------------------------------------------------------------------------
MaxCorruptions == 2

\* the digests and identifiers of the network, scaled down
DigestRange == 5

Digests == 0 .. (DigestRange - 1)

\* the CRH of the network on the concatenation of two values
Crh(a, b) == (2 * a + 3 * b + 1) % DigestRange

\* the root a MerklePath leads to from a leaf
MerkleRoot(path, leaf) ==
    IF path.index = 0 THEN Crh(leaf, path.sibling) ELSE Crh(path.sibling, leaf)

\* MerklePath::verify(root, leaf): Result<bool>, an error when the CRH fails
MerklePathVerify(path, root, leaf) ==
    IF path.hash_fails THEN [tag |-> "Err"]
    ELSE [tag |-> "Ok", val |-> (MerkleRoot(path, leaf) = root)]

\* Err(anyhow!(..)) of the check-th check of LedgerProof::new
LedgerError(check, kind) == [tag |-> "Err", err |-> [check |-> check, kind |-> kind]]

\* variant of LedgerProofNew: the block hash is not checked
LedgerProofNewSkipsBlockHash(a) ==
    LET transition == MerklePathVerify(a.transition_inclusion_proof,
                                       a.transition_id, a.commitment)
        transaction == MerklePathVerify(a.transaction_inclusion_proof,
                                        a.transaction_id, a.transition_id)
        transactions == MerklePathVerify(a.transactions_inclusion_proof,
                                         a.transactions_root, a.transaction_id)
        block_header == MerklePathVerify(a.block_header_inclusion_proof,
                                         a.block_header_root, a.transactions_root)
    IN  IF transition.tag = "Err" THEN LedgerError(1, "merkle")
        ELSE IF ~transition.val THEN LedgerError(1, "does not belong")
        ELSE IF transaction.tag = "Err" THEN LedgerError(2, "merkle")
        ELSE IF ~transaction.val THEN LedgerError(2, "does not belong")
        ELSE IF transactions.tag = "Err" THEN LedgerError(3, "merkle")
        ELSE IF ~transactions.val THEN LedgerError(3, "does not belong")
        ELSE IF block_header.tag = "Err" THEN LedgerError(4, "merkle")
        ELSE IF ~block_header.val THEN LedgerError(4, "does not belong")
        ELSE [tag |-> "Ok", proof |-> a]

\* LedgerProof::new: the four inclusion proofs, then the block hash
LedgerProofNew(a) ==
    LET transition == MerklePathVerify(a.transition_inclusion_proof,
                                       a.transition_id, a.commitment)
        transaction == MerklePathVerify(a.transaction_inclusion_proof,
                                        a.transaction_id, a.transition_id)
        transactions == MerklePathVerify(a.transactions_inclusion_proof,
                                         a.transactions_root, a.transaction_id)
        block_header == MerklePathVerify(a.block_header_inclusion_proof,
                                         a.block_header_root, a.transactions_root)
        candidate_block_hash == Crh(a.previous_block_hash, a.block_header_root)
    IN  IF transition.tag = "Err" THEN LedgerError(1, "merkle")
        ELSE IF ~transition.val THEN LedgerError(1, "does not belong")
        ELSE IF transaction.tag = "Err" THEN LedgerError(2, "merkle")
        ELSE IF ~transaction.val THEN LedgerError(2, "does not belong")
        ELSE IF transactions.tag = "Err" THEN LedgerError(3, "merkle")
        ELSE IF ~transactions.val THEN LedgerError(3, "does not belong")
        ELSE IF block_header.tag = "Err" THEN LedgerError(4, "merkle")
        ELSE IF ~block_header.val THEN LedgerError(4, "does not belong")
        ELSE IF candidate_block_hash # a.block_hash THEN LedgerError(5, "does not match")
        ELSE [tag |-> "Ok", proof |-> a]

\* ToBytes::write_le: the eleven fields, in this order
LedgerProofWriteLe(a) ==
    << a.block_hash, a.previous_block_hash, a.block_header_root,
       a.block_header_inclusion_proof, a.transactions_root,
       a.transactions_inclusion_proof, a.transaction_id,
       a.transaction_inclusion_proof, a.transition_id,
       a.transition_inclusion_proof, a.commitment >>

\* FromBytes::read_le: eleven reads, each with ?, then new(..).expect(..)
LedgerProofReadLe(bytes) ==
    IF Len(bytes) < 11 THEN [tag |-> "Err", err |-> [check |-> 0, kind |-> "io"]]
    ELSE LET made == LedgerProofNew(
                 [block_hash |-> bytes[1], previous_block_hash |-> bytes[2],
                  block_header_root |-> bytes[3],
                  block_header_inclusion_proof |-> bytes[4],
                  transactions_root |-> bytes[5],
                  transactions_inclusion_proof |-> bytes[6],
                  transaction_id |-> bytes[7],
                  transaction_inclusion_proof |-> bytes[8],
                  transition_id |-> bytes[9],
                  transition_inclusion_proof |-> bytes[10],
                  commitment |-> bytes[11]])
         IN  IF made.tag = "Err" THEN Panicked("expect") ELSE made

\* a proof as the ledger builds it: every id is the root of the path below it
HonestProof(commitment, sibling, index, previous_block_hash) ==
    LET path == [sibling |-> sibling, index |-> index, hash_fails |-> FALSE]
        transition_id == MerkleRoot(path, commitment)
        transaction_id == MerkleRoot(path, transition_id)
        transactions_root == MerkleRoot(path, transaction_id)
        block_header_root == MerkleRoot(path, transactions_root)
    IN  [block_hash |-> Crh(previous_block_hash, block_header_root),
         previous_block_hash |-> previous_block_hash,
         block_header_root |-> block_header_root,
         block_header_inclusion_proof |-> path,
         transactions_root |-> transactions_root,
         transactions_inclusion_proof |-> path,
         transaction_id |-> transaction_id,
         transaction_inclusion_proof |-> path,
         transition_id |-> transition_id,
         transition_inclusion_proof |-> path,
         commitment |-> commitment]

ValueFields ==
    { "block_hash", "previous_block_hash", "block_header_root", "transactions_root",
      "transaction_id", "transition_id", "commitment" }

PathFields ==
    { "block_header_inclusion_proof", "transactions_inclusion_proof",
      "transaction_inclusion_proof", "transition_inclusion_proof" }

\* the arguments with the fields of d replaced: a value by the next digest,
\* a path by one on which the CRH fails
Tamper(a, d) ==
    [f \in DOMAIN a |->
        IF f \notin d THEN a[f]
        ELSE IF f \in ValueFields THEN (a[f] + 1) % DigestRange
        ELSE [a[f] EXCEPT !.hash_fails = TRUE]]

\* what a caller can pass to LedgerProof::new
LedgerArguments ==
    { Tamper(HonestProof(cm, sib, idx, prev), d) :
        cm \in { 0, 1 }, sib \in { 1, 2 }, idx \in { 0, 1 }, prev \in { 0, 3 },
        d \in { x \in SUBSET (ValueFields \cup PathFields) :
                  Cardinality(x) <= MaxCorruptions } }

\* the part of the prover is not in use
RoundNotInUse ==
    /\ input = NotInUse /\ mode = NotInUse /\ state = NotInUse
    /\ owner = "nobody" /\ pc = "unused"
    /\ job_pool = << >> /\ results = << >> /\ parts = EmptyBag
    /\ identities = 0 /\ outcome = NoOutcome /\ invocations = 0
    /\ taken = << >> /\ jobs_run = 0 /\ checks_run = 0

InitLedger ==
    /\ RoundNotInUse
    /\ imports = NotInUse
    /\ \E a \in LedgerArguments :
           ledger = [pc |-> "ready", via |-> "none", args |-> a, bytes |-> << >>,
                     result |-> NoOutcome]

\* a caller calls LedgerProof::new on the arguments
CallNew ==
    /\ ledger.pc = "ready"
    /\ ledger' = [ledger EXCEPT !.pc = "done", !.via = "new",
                                !.result = LedgerProofNew(ledger.args)]
    /\ UNCHANGED << roundVars, imports >>

\* a caller reads a proof from the bytes written of the arguments, or from
\* their first len fields
CallReadLe ==
    /\ ledger.pc = "ready"
    /\ \E len \in 0 .. 11 :
        LET bytes == SubSeq(LedgerProofWriteLe(ledger.args), 1, len)
        IN  ledger' = [ledger EXCEPT !.pc = "done", !.via = "read_le",
                                     !.bytes = bytes,
                                     !.result = LedgerProofReadLe(bytes)]
    /\ UNCHANGED << roundVars, imports >>

NextLedger == CallNew \/ CallReadLe

SpecLedger == InitLedger /\ [][NextLedger]_vars

\* ------------------------------------------------------------------------
\* import/mod.rs
\* ------------------------------------------------------------------------
MaxIdentifierLen == 2

\* the bytes identifiers are written with: 'a' and 'b'
IdentifierBytes == { 97, 98 }

IdentifierTexts ==
    UNION { [1 .. l -> IdentifierBytes] : l \in 1 .. MaxIdentifierLen }

RECURSIVE BytesToField(_)
\* the bytes of the text, packed little-endian into one field element
BytesToField(text) ==
    IF text = << >> THEN 0 ELSE Head(text) + 256 * BytesToField(Tail(text))

\* Identifier::from_str: the packed bytes and their number
IdentifierFromStr(text) == [field |-> BytesToField(text), size |-> Len(text)]

\* Identifier::to_string: the bytes unpacked
IdentifierToString(id) ==
    [i \in 1 .. id.size |-> (id.field \div IntPow(256, i - 1)) % 256]

RECURSIVE StrCmp(_, _)
\* <str as Ord>::cmp: byte by byte, a proper prefix is less
StrCmp(a, b) ==
    IF a = << >> /\ b = << >> THEN "Equal"
    ELSE IF a = << >> THEN "Less"
    ELSE IF b = << >> THEN "Greater"
    ELSE IF Head(a) < Head(b) THEN "Less"
    ELSE IF Head(a) > Head(b) THEN "Greater"
    ELSE StrCmp(Tail(a), Tail(b))

\* variant of ImportCmp: the names decide first, the domains second
ImportCmpNameFirst(self, other) ==
    IF self.name = other.name
    THEN StrCmp(IdentifierToString(self.domain), IdentifierToString(other.domain))
    ELSE StrCmp(IdentifierToString(self.name), IdentifierToString(other.name))

\* <Import as Ord>::cmp
ImportCmp(self, other) ==
    IF self.domain = other.domain
    THEN StrCmp(IdentifierToString(self.name), IdentifierToString(other.name))
    ELSE StrCmp(IdentifierToString(self.domain), IdentifierToString(other.domain))

\* <Import as PartialOrd>::partial_cmp
ImportPartialCmp(self, other) ==
    IF self.domain = other.domain
    THEN Some(StrCmp(IdentifierToString(self.name), IdentifierToString(other.name)))
    ELSE Some(StrCmp(IdentifierToString(self.domain), IdentifierToString(other.domain)))

\* the statement `import {name}.{domain};`
ImportTexts == [name : IdentifierTexts, domain : IdentifierTexts]

\* Import { name, domain } of a statement
ImportOf(text) ==
    [name |-> IdentifierFromStr(text.name), domain |-> IdentifierFromStr(text.domain)]

InitImports ==
    /\ RoundNotInUse
    /\ ledger = NotInUse
    /\ \E l \in ImportTexts, r \in ImportTexts :
           imports = [pc |-> "ready", lhs_text |-> l, rhs_text |-> r,
                      lhs |-> ImportOf(l), rhs |-> ImportOf(r),
                      cmp |-> None, partial_cmp |-> None]

\* lhs.cmp(&rhs)
CallCmp ==
    /\ imports.pc = "ready"
    /\ ~imports.cmp.some
    /\ imports' = [imports EXCEPT !.cmp = Some(ImportCmp(imports.lhs, imports.rhs))]
    /\ UNCHANGED << roundVars, ledger >>

\* lhs.partial_cmp(&rhs)
CallPartialCmp ==
    /\ imports.pc = "ready"
    /\ ~imports.partial_cmp.some
    /\ imports' = [imports EXCEPT
                       !.partial_cmp = Some(ImportPartialCmp(imports.lhs, imports.rhs))]
    /\ UNCHANGED << roundVars, ledger >>

NextImports == CallCmp \/ CallPartialCmp

SpecImports == InitImports /\ [][NextImports]_vars

\* ------------------------------------------------------------------------
\* Views used by the properties
\* ------------------------------------------------------------------------
NumCircuits == Len(input.shape)

Returned == pc = "returned"

FirstCall == invocations = 1

\* the polynomial of the oracle h_0 handed to the caller
ReturnedH0 == outcome.oracles.h_0.polynomial

\* the number of coefficients up to the last nonzero one
SignificantLen(p) ==
    IF \A i \in 1 .. Len(p) : p[i] = 0 THEN 0
    ELSE CHOOSE i \in 1 .. Len(p) : p[i] # 0 /\ \A k \in (i + 1) .. Len(p) : p[k] = 0

\* the degree, computed from the coefficients alone
TrueDegree(p) == IF SignificantLen(p) = 0 THEN 0 ELSE SignificantLen(p) - 1

\* the instance's witness satisfies its R1CS: (Az) o (Bz) = Cz
Satisfied(t) == \A i \in 1 .. Len(t.a) : FMul(t.a[i], t.b[i]) = t.c[i]

AllSatisfied ==
    \A c \in 1 .. NumCircuits : \A j \in 1 .. input.shape[c].batch :
        Satisfied(input.witness[c][j])

\* the message holds a combiner for every instance of every circuit
EveryInstanceHasCombiner ==
    \A c \in 1 .. NumCircuits :
        /\ c \in DOMAIN input.batch_combiners
        /\ Len(input.batch_combiners[c].instance_combiners) >= input.shape[c].batch

RECURSIVE FSumTo(_, _)
\* the sum in F of f[1], ..., f[n]
FSumTo(f, n) == IF n = 0 THEN 0 ELSE FAdd(f[n], FSumTo(f, n - 1))

\* the value at x of the polynomial of degree < n that takes the values e
\* over the domain of size n, by Lagrange's formula (x outside the domain)
LagrangeAt(e, n, x) ==
    FMul(FMul(FSub(FPow(x, n), 1), FInv(n % FieldModulus)),
         FSumTo([k \in 1 .. n |->
                    FMul(FMul(e[k], GroupGenPow(n, k - 1)),
                         FInv(FSub(x, GroupGenPow(n, k - 1))))], n))

\* the points outside every constraint domain of the proof
ReferencePoints ==
    { x \in Fe : \A c \in 1 .. NumCircuits : FPow(x, input.shape[c].n) # 1 }

\* (z_a z_b - z_c)(x) / v_H(x), scaled by the two combiners and |H_i| / |H|
QuotientTermAt(c, j, x) ==
    LET n == input.shape[c].n
        t == input.witness[c][j]
        bc == input.batch_combiners[c]
        residual == FSub(FMul(LagrangeAt(t.a, n, x), LagrangeAt(t.b, n, x)),
                         LagrangeAt(t.c, n, x))
    IN  FMul(FMul(FMul(bc.circuit_combiner, bc.instance_combiners[j]),
                  FMul(n % FieldModulus,
                       FInv(MaxDomain(input.shape) % FieldModulus))),
             FMul(residual, FInv(FSub(FPow(x, n), 1))))

\* the value h_0 must take at x: the sum of all the instances' terms
ReferenceH0At(x) ==
    FSumTo([c \in 1 .. NumCircuits |->
               FSumTo([j \in 1 .. input.shape[c].batch |-> QuotientTermAt(c, j, x)],
                      input.shape[c].batch)], NumCircuits)

\* the residual the job of job_pool[k] computes does not vanish somewhere on
\* the constraint domain
ComputedResidualNonVanishing(k) ==
    LET job == job_pool[k]
        n == job.constraint_domain
        residual == Rowcheck(Interpolate(job.z_a, n), Interpolate(job.z_b, n),
                             Interpolate(job.z_c, n)).val
    IN  \E i \in 1 .. n : Evaluate(residual, GroupGenPow(n, i - 1)) # 0

\* the coefficient-wise sum of the polynomials of all the job results
SumOfJobResults ==
    LET polys == [k \in 1 .. Len(results) |-> results[k].val.poly]
        width == IF Len(polys) = 0 THEN 0
                 ELSE CHOOSE w \in { Len(polys[k]) : k \in 1 .. Len(polys) } :
                          \A k \in 1 .. Len(polys) : Len(polys[k]) <= w
        total == [i \in 1 .. width |->
                     FSumTo([k \in 1 .. Len(polys) |-> Coeff(polys[k], i)], Len(polys))]
    IN  SubSeq(total, 1, SignificantLen(total))

AllSlotsEmpty ==
    \A c \in 1 .. NumCircuits :
        LET s == state.circuit_specific_states[c]
        IN  ~s.z_a.some /\ ~s.z_b.some /\ ~s.z_c.some

\* ------------------------------------------------------------------------
\* C1
\* ------------------------------------------------------------------------

\* C1: whenever prover_second_round returns successfully, h_0 has degree at
\* most 2 * max_constraint_domain.size() + 2 * zk_bound - 2 (zk_bound 0
\* without zero-knowledge); no polynomial a job's selector produces exceeds
\* it, so the assertion on the bound never fires.
C1_DegreeBound ==
    LET bound == 2 * state.max_constraint_domain + (IF mode.zk THEN 2 ELSE 0) - 2
    IN  /\ outcome.tag = "Ok" => TrueDegree(ReturnedH0) <= bound
        /\ ~(outcome.tag = "Panic" /\ outcome.why = "degree")
        /\ \A k \in 1 .. Len(results) :
               (results[k].some /\ results[k].val.tag = "Ok")
                   => TrueDegree(results[k].val.poly) <= bound

C1_Witness ==
    /\ outcome.tag = "Ok"
    /\ ~mode.zk
    /\ NumCircuits = 2
    /\ TrueDegree(ReturnedH0) = state.max_constraint_domain - 2
    /\ TrueDegree(ReturnedH0) >= 2

\* ------------------------------------------------------------------------
\* C2
\* ------------------------------------------------------------------------

\* C2 as claimed: satisfied witnesses give the zero polynomial h_0, and a
\* violated instance gives a nonzero h_0.
C2_AsClaimed ==
    (Returned /\ FirstCall /\ EveryInstanceHasCombiner) =>
        /\ AllSatisfied => (outcome.tag = "Ok" /\ IsZero(ReturnedH0))
        /\ ~AllSatisfied => (outcome.tag = "Ok" /\ ~IsZero(ReturnedH0))

\* C2, amended: when every instance satisfies its R1CS over its constraint
\* domain, round 2 succeeds and h_0 is the combiner-weighted sum of the exact
\* quotients (z_a z_b - z_c) / v_H, each scaled by |H_i| / |H_max| (a
\* polynomial of fewer than |H_max| - 1 coefficients, zero only when these
\* quotients cancel); when the residual a job computes does not vanish on the
\* instance's constraint domain, round 2 returns an error and no h_0.
C2_SoundnessLinkage ==
    (Returned /\ FirstCall /\ EveryInstanceHasCombiner) =>
        /\ AllSatisfied =>
             /\ outcome.tag = "Ok"
             /\ SignificantLen(ReturnedH0) + 1 <= state.max_constraint_domain
                    \/ SignificantLen(ReturnedH0) = 0
             /\ \A x \in ReferencePoints : Evaluate(ReturnedH0, x) = ReferenceH0At(x)
        /\ (\E k \in 1 .. Len(job_pool) : ComputedResidualNonVanishing(k))
             => outcome.tag = "Err"

C2_Witness ==
    /\ Returned /\ FirstCall /\ EveryInstanceHasCombiner
    /\ AllSatisfied
    /\ NumCircuits = 2
    /\ Len(job_pool) = 3
    /\ outcome.tag = "Ok"
    /\ ~IsZero(ReturnedH0)

\* ------------------------------------------------------------------------
\* C3
\* ------------------------------------------------------------------------

\* C3: whatever order the jobs finish in and whatever pairs the reduction
\* combines, in whatever order, the h_0 returned is the same polynomial: the
\* coefficient-wise sum of the job results.
C3_OrderIndependence ==
    (Returned /\ FirstCall /\ outcome.tag = "Ok") => ReturnedH0 = SumOfJobResults

C3_Witness ==
    /\ Returned /\ FirstCall /\ outcome.tag = "Ok"
    /\ NumCircuits = 2
    /\ Len(job_pool) = 3
    /\ \A k \in 1 .. 3 : ~IsZero(results[k].val.poly)
    /\ Cardinality({ results[k].val.poly : k \in 1 .. 3 }) = 3
    /\ ~IsZero(ReturnedH0)

\* ------------------------------------------------------------------------
\* C4
\* ------------------------------------------------------------------------

\* C4: a circuit's witness is extracted at most once; a successful round 2
\* leaves every witness slot empty, and a second call on the returned state
\* gets no witness: it panics while the job list is built, before any job
\* exists or runs.
C4_WitnessTakenOnce ==
    /\ \A c \in 1 .. NumCircuits : taken[c] <= 1
    /\ outcome.tag = "Ok" => AllSlotsEmpty
    /\ invocations >= 2 =>
         /\ pc = "returned"
         /\ outcome = Panicked("unwrap")
         /\ job_pool = << >>
         /\ jobs_run = 0

C4_Witness ==
    /\ invocations = 2
    /\ outcome = Panicked("unwrap")
    /\ \A c \in 1 .. NumCircuits : taken[c] = 1
    /\ NumCircuits = 2

\* ------------------------------------------------------------------------
\* C5
\* ------------------------------------------------------------------------

\* the jobs created for instance j (from 1) of circuit c that carry its
\* witness triple and its instance combiner
JobsOfInstance(c, j) ==
    { k \in 1 .. Len(job_pool) :
        /\ job_pool[k].circuit = c
        /\ job_pool[k].j = j - 1
        /\ job_pool[k].z_a = input.witness[c][j].a
        /\ job_pool[k].z_b = input.witness[c][j].b
        /\ job_pool[k].z_c = input.witness[c][j].c }

\* C5: once the job list is built, every instance j of every circuit has
\* exactly one job, which carries the j-th witness triple; no triple is left
\* without a job, whatever the number of instance combiners supplied.
C5_OneJobPerInstance ==
    (pc = "execute" /\ FirstCall) =>
        /\ \A c \in 1 .. NumCircuits : \A j \in 1 .. input.shape[c].batch :
               Cardinality(JobsOfInstance(c, j)) = 1
        /\ Len(job_pool) = SumBatch(input.shape)

\* ------------------------------------------------------------------------
\* C6
\* ------------------------------------------------------------------------

\* the polynomial the job of job_pool[k] hands to the selector does not
\* vanish somewhere on the constraint domain: its division by the vanishing
\* polynomial leaves a remainder
SelectorInputHasRemainder(k) ==
    LET job == job_pool[k]
        n == job.constraint_domain
        lhs == InstanceLhs(Rowcheck(Interpolate(job.z_a, n), Interpolate(job.z_b, n),
                                    Interpolate(job.z_c, n)).val,
                           job.instance_combiner)
    IN  \E i \in 1 .. n : Evaluate(lhs, GroupGenPow(n, i - 1)) # 0

\* C6: a job whose selector input leaves a nonzero remainder returns the
\* selector's error, never a polynomial and never a panic on the remainder;
\* a round with such a job returns an error and no oracle.
C6_RemainderContract ==
    /\ \A k \in 1 .. Len(results) :
           results[k].some =>
               /\ SelectorInputHasRemainder(k) =>
                      results[k].val =
                          Err([kind |-> "remainder", circuit |-> job_pool[k].circuit,
                               j |-> job_pool[k].j])
               /\ results[k].val.tag = "Ok" => ~SelectorInputHasRemainder(k)
               /\ results[k].val # Panicked("remainder")
    /\ (Returned /\ FirstCall
            /\ \E k \in 1 .. Len(job_pool) : SelectorInputHasRemainder(k))
           => (outcome.tag = "Err" /\ outcome.err.kind = "remainder")

C6_Witness ==
    /\ Returned /\ FirstCall
    /\ Len(job_pool) >= 2
    /\ \E k \in 1 .. Len(job_pool) : SelectorInputHasRemainder(k)
    /\ \E k \in 1 .. Len(job_pool) :
           results[k].val.tag = "Ok" /\ ~IsZero(results[k].val.poly)
    /\ outcome.tag = "Err"
    /\ outcome.err.kind = "remainder"

\* ------------------------------------------------------------------------
\* C7
\* ------------------------------------------------------------------------

\* C7: when the verifier's first message has no batch combiners for a
\* circuit of the prover state, the round returns an error and does not
\* panic.
C7_MissingCombinerIsError ==
    (Returned /\ FirstCall
        /\ \E c \in 1 .. NumCircuits : c \notin DOMAIN input.batch_combiners)
      => outcome.tag = "Err"

\* ------------------------------------------------------------------------
\* C8
\* ------------------------------------------------------------------------

\* C8 as claimed: in every build mode each of the three interpolations of
\* every job is followed by its round-trip check.
C8_AsClaimed == checks_run = 3 * jobs_run

\* C8, amended: the round-trip check of an interpolation is a debug
\* assertion: debug builds evaluate it for each of the three interpolations
\* of every job, where it holds and never stops the round; release builds do
\* not evaluate it at all.
C8_InterpolationCheck ==
    /\ checks_run = IF mode.debug THEN 3 * jobs_run ELSE 0
    /\ \A k \in 1 .. Len(results) :
           results[k].some => results[k].val # Panicked("debug_assert")
    /\ outcome # Panicked("debug_assert")

C8_Witness ==
    /\ ~mode.debug
    /\ Returned /\ FirstCall
    /\ jobs_run = 3
    /\ checks_run = 0
    /\ outcome.tag = "Ok"
    /\ ~IsZero(ReturnedH0)

\* ------------------------------------------------------------------------
\* C9
\* ------------------------------------------------------------------------

\* the errors returned by the jobs of this round
JobErrors ==
    { results[k].val : k \in { i \in 1 .. Len(results) :
                                 results[i].some /\ results[i].val.tag = "Err" } }

\* C9: when a job has returned an error, every reduction order ends in an
\* error that is one of the jobs' errors, and the round returns it; while
\* the reduction runs an error among its operands is never lost.
C9_JobErrorPropagated ==
    /\ (Returned /\ FirstCall /\ JobErrors # {})
           => (outcome.tag = "Err" /\ outcome \in JobErrors)
    /\ (pc = "reduce" /\ JobErrors # {})
           => \E r \in BagToSet(parts) : r \in JobErrors
    /\ outcome.tag = "Err" => outcome \in JobErrors

C9_Witness ==
    /\ Returned /\ FirstCall
    /\ Cardinality(JobErrors) = 2
    /\ \E k \in 1 .. Len(results) :
           results[k].val.tag = "Ok" /\ ~IsZero(results[k].val.poly)
    /\ outcome.tag = "Err"
    /\ outcome.err.j = 1

\* ------------------------------------------------------------------------
\* C10
\* ------------------------------------------------------------------------

\* C10: the round's polynomial-info table has exactly one entry, labelled
\* h_0, with no degree bound and no hiding bound, as many as
\* num_second_round_oracles; every oracle bundle returned holds exactly one
\* polynomial, whose info is that entry, and the check of the oracles
\* against the table never fails.
C10_OneOracleInfo ==
    LET entry == [label |-> "h_0", degree_bound |-> [some |-> FALSE],
                  hiding_bound |-> [some |-> FALSE]]
    IN  /\ DOMAIN second_round_polynomial_info = { "h_0" }
        /\ second_round_polynomial_info["h_0"] = entry
        /\ Cardinality(DOMAIN second_round_polynomial_info) = num_second_round_oracles
        /\ outcome.tag = "Ok" =>
               /\ DOMAIN outcome.oracles = { "h_0" }
               /\ outcome.oracles.h_0.info = entry
        /\ outcome # Panicked("matches_info")

C10_Witness ==
    /\ Returned /\ FirstCall
    /\ outcome.tag = "Ok"
    /\ mode.zk
    /\ Len(job_pool) = 3
    /\ SignificantLen(outcome.oracles.h_0.polynomial) >= 2

\* ------------------------------------------------------------------------
\* C11 (under SpecGuard)
\* ------------------------------------------------------------------------

\* the polynomial the reduction handed to the end of the round
ReducedPoly == (CHOOSE r \in BagToSet(parts) : TRUE).poly

\* its degree is above 2 * max_constraint_domain.size() + 2 * zk_bound - 2
ExceedsDegreeBound ==
    TrueDegree(ReducedPoly) >
        2 * state.max_constraint_domain + (IF mode.zk THEN 2 ELSE 0) - 2

ReproducesOverDomain(evaluations, n) ==
    LET z == calculate_z_m(evaluations, n)
    IN  /\ \A i \in 1 .. n : Evaluate(z.poly, GroupGenPow(n, i - 1)) = evaluations[i]
        /\ Len(z.poly) <= n
        /\ ~z.panics

\* C12: for each of the three witness columns of every job, the polynomial
\* calculate_z_m interpolates over the constraint domain evaluates, at every
\* point of that domain, to the column's entry for that point.
C12_InterpolationRoundTrip ==
    \A k \in 1 .. Len(job_pool) :
        LET job == job_pool[k]
        IN  /\ ReproducesOverDomain(job.z_a, job.constraint_domain)
            /\ ReproducesOverDomain(job.z_b, job.constraint_domain)
            /\ ReproducesOverDomain(job.z_c, job.constraint_domain)

C12_Witness ==
    /\ Len(job_pool) = 1
    /\ job_pool[1].constraint_domain = 4
    /\ job_pool[1].z_a = << 1, 2, 0, FieldModulus - 1 >>
    /\ results[1].some
    /\ mode.debug
    /\ checks_run = 3

\* ------------------------------------------------------------------------
\* C13 (under SpecLedger)
\* ------------------------------------------------------------------------

\* the five conditions on the fields p, in the order of the claim: TRUE when
\* the condition holds (an inclusion proof on which the CRH fails proves
\* nothing)
LedgerConditions(p) ==
    LET includes(path, root, leaf) ==
            ~path.hash_fails /\ root =
                (IF path.index = 0 THEN Crh(leaf, path.sibling)
                                   ELSE Crh(path.sibling, leaf))
    IN  << includes(p.transition_inclusion_proof, p.transition_id, p.commitment),
           includes(p.transaction_inclusion_proof, p.transaction_id, p.transition_id),
           includes(p.transactions_inclusion_proof, p.transactions_root,
                    p.transaction_id),
           includes(p.block_header_inclusion_proof, p.block_header_root,
                    p.transactions_root),
           p.block_hash = Crh(p.previous_block_hash, p.block_header_root) >>

\* the first condition that fails, 0 when all five hold
FirstFailing(p) ==
    LET conds == LedgerConditions(p)
    IN  IF \A k \in 1 .. 5 : conds[k] THEN 0
        ELSE CHOOSE k \in 1 .. 5 : ~conds[k] /\ \A i \in 1 .. (k - 1) : conds[i]

\* C13: LedgerProof::new returns a proof exactly when the four inclusion
\* proofs verify and the block hash matches, and then the proof holds the
\* arguments unchanged; otherwise it returns the error of the first failing
\* check, in the order transition, transaction, transactions, block header,
\* block hash, and no proof. Every proof from new or from read_le satisfies
\* the five conditions and holds the given values.
C13_NewChecksAll ==
    ledger.pc = "done" =>
        /\ ledger.via = "new" =>
               IF FirstFailing(ledger.args) = 0
               THEN ledger.result = [tag |-> "Ok", proof |-> ledger.args]
               ELSE /\ ledger.result.tag = "Err"
                    /\ ledger.result.err.check = FirstFailing(ledger.args)
                    /\ "proof" \notin DOMAIN ledger.result
        /\ (ledger.via = "read_le" /\ ledger.result.tag = "Ok") =>
               /\ Len(ledger.bytes) = 11
               /\ ledger.result.proof = ledger.args
        /\ ledger.result.tag = "Ok" =>
               \A k \in 1 .. 5 : LedgerConditions(ledger.result.proof)[k]

C13_Witness ==
    /\ ledger.pc = "done"
    /\ ledger.via = "new"
    /\ ~LedgerConditions(ledger.args)[2]
    /\ ~LedgerConditions(ledger.args)[5]
    /\ LedgerConditions(ledger.args)[1]
    /\ ledger.result.tag = "Err"
    /\ ledger.result.err.check = 2

\* ------------------------------------------------------------------------
\* C14 (under SpecImports)
\* ------------------------------------------------------------------------

\* the order of two texts, from the first position where they differ
TextOrder(a, b) ==
    LET common == IF Len(a) <= Len(b) THEN Len(a) ELSE Len(b)
        differ == { i \in 1 .. common : a[i] # b[i] }
    IN  IF differ # {}
        THEN LET i == CHOOSE i \in differ : \A k \in differ : i <= k
             IN  IF a[i] < b[i] THEN "Less" ELSE "Greater"
        ELSE IF Len(a) < Len(b) THEN "Less"
        ELSE IF Len(a) > Len(b) THEN "Greater"
        ELSE "Equal"

\* domain first, name second
ImportOrder(l, r) ==
    IF l.domain # r.domain THEN TextOrder(l.domain, r.domain)
    ELSE TextOrder(l.name, r.name)

ReverseOrdering(o) ==
    IF o = "Less" THEN "Greater" ELSE IF o = "Greater" THEN "Less" ELSE "Equal"

\* C14: cmp and partial_cmp order two imports by their domains when these
\* differ and by their names otherwise; partial_cmp is Some of what cmp
\* returns; the result is Equal exactly when names and domains are equal;
\* with the operands swapped Less and Greater change places.
C14_ImportOrdering ==
    LET expected == ImportOrder(imports.lhs_text, imports.rhs_text)
    IN  /\ imports.cmp.some =>
             /\ imports.cmp.val = expected
             /\ imports.cmp.val = "Equal" <=> imports.lhs_text = imports.rhs_text
             /\ ImportCmp(imports.rhs, imports.lhs) = ReverseOrdering(imports.cmp.val)
        /\ imports.partial_cmp.some =>
             /\ imports.partial_cmp.val = Some(expected)
             /\ ImportPartialCmp(imports.rhs, imports.lhs)
                    = Some(ReverseOrdering(imports.partial_cmp.val.val))
        /\ (imports.cmp.some /\ imports.partial_cmp.some) =>
             imports.partial_cmp.val = Some(imports.cmp.val)

C14_Witness ==
    /\ imports.cmp.some
    /\ imports.partial_cmp.some
    /\ imports.lhs_text.domain = << 97 >>
    /\ imports.rhs_text.domain = << 97, 97 >>
    /\ imports.lhs_text.name = << 98 >>
    /\ imports.rhs_text.name = << 97 >>
    /\ imports.cmp.val = "Less"

\* ------------------------------------------------------------------------
\* C15 (under SpecWide)
\* ------------------------------------------------------------------------

\* the residual the job of job_pool[k] computes
ComputedResidual(k) ==
    LET job == job_pool[k]
        n == job.constraint_domain
    IN  Rowcheck(calculate_z_m(job.z_a, n).poly, calculate_z_m(job.z_b, n).poly,
                 calculate_z_m(job.z_c, n).poly).val

\* (z_a * z_b - z_c)(x) for the three polynomials of job_pool[k]
ResidualAt(k, x) ==
    LET job == job_pool[k]
        n == job.constraint_domain
    IN  FSub(FMul(Evaluate(calculate_z_m(job.z_a, n).poly, x),
                  Evaluate(calculate_z_m(job.z_b, n).poly, x)),
             Evaluate(calculate_z_m(job.z_c, n).poly, x))

\* C15: the residual every job computes is the polynomial z_a * z_b - z_c
\* (the two agree at every point of the field, which has more points than
\* either has coefficients), so it vanishes over the constraint domain
\* exactly when the instance satisfies its R1CS.
C15_ResidualIsProductMinusZc ==
    \A k \in 1 .. Len(job_pool) :
        /\ \A x \in Fe : Evaluate(ComputedResidual(k), x) = ResidualAt(k, x)
        /\ (\A i \in 1 .. job_pool[k].constraint_domain :
                Evaluate(ComputedResidual(k),
                         GroupGenPow(job_pool[k].constraint_domain, i - 1)) = 0)
             <=> Satisfied([a |-> job_pool[k].z_a, b |-> job_pool[k].z_b,
                            c |-> job_pool[k].z_c])

\* ------------------------------------------------------------------------
\* C16
\* ------------------------------------------------------------------------
RECURSIVE PolySumTo(_, _)
\* the sum of the polynomials f[1], ..., f[n]
PolySumTo(f, n) == IF n = 0 THEN Zero ELSE PolyAdd(PolySumTo(f, n - 1), f[n])

\* z_a * z_b - z_c of instance j of circuit c, with all of z_c subtracted
InstanceResidual(c, j) ==
    LET n == input.shape[c].n
        t == input.witness[c][j]
    IN  PolyAdd(PolyMultiply(Interpolate(t.a, n), Interpolate(t.b, n)).val,
                Scale(Interpolate(t.c, n), FieldModulus - 1))

\* the specified algorithm on circuit c: the instance residuals, each scaled
\* by its instance combiner, are summed and the selector is applied once
CircuitQuotient(c) ==
    LET batch == input.shape[c].batch
        bc == input.batch_combiners[c]
        circuit_sum ==
            PolySumTo([j \in 1 .. batch |->
                          Scale(InstanceResidual(c, j), bc.instance_combiners[j])],
                      batch)
    IN  ApplyRandomizedSelector(circuit_sum, bc.circuit_combiner,
                                MaxDomain(input.shape), input.shape[c].n, FALSE)

\* C16: the h_0 a successful round returns is the result of the specified
\* algorithm: per circuit the combiner-scaled instance residuals are summed,
\* the selector is applied once to the sum, and the circuits' quotients are
\* added.
C16_SelectorPerCircuit ==
    (Returned /\ FirstCall /\ EveryInstanceHasCombiner /\ outcome.tag = "Ok") =>
        /\ \A c \in 1 .. NumCircuits : CircuitQuotient(c).tag = "Ok"
        /\ ReturnedH0 =
               PolySumTo([c \in 1 .. NumCircuits |-> CircuitQuotient(c).h], NumCircuits)

\* ------------------------------------------------------------------------
\* C17
\* ------------------------------------------------------------------------
RoundFailed == outcome.tag \in { "Err", "Panic" }

\* C17: when prover_second_round fails, with an error or a panic, its
\* caller gets no oracle bundle and no state: the state went into the round
\* and was dropped there, and from then on it is never passed to a round
\* again nor changed.
C17_FailureConsumesState ==
    /\ [](RoundFailed => (owner = "dropped" /\ "oracles" \notin DOMAIN outcome))
    /\ [][owner = "dropped" =>
             (owner' = "dropped" /\ invocations' = invocations /\ state' = state
                 /\ outcome' = outcome)]_vars

C17_Witness ==
    /\ Returned /\ FirstCall
    /\ outcome.tag = "Err"
    /\ owner = "dropped"
    /\ AllSlotsEmpty
    /\ NumCircuits = 2
    /\ \E k \in 1 .. Len(results) :
           results[k].val.tag = "Ok" /\ ~IsZero(results[k].val.poly)

\* ------------------------------------------------------------------------
\* C18 (under FairSpec)
\* ------------------------------------------------------------------------
AllJobsFinished == \A k \in 1 .. Len(results) : results[k].some

\* C18: the reduction runs only when every job of the round has finished;
\* the oracle bundle and the state go to the caller only from the end of the
\* reduction, when one accumulator is left; and a round that has started
\* always returns, with a result or by a hard abort.
C18_BarrierThenReduction ==
    /\ [](pc = "reduce" => (AllJobsFinished /\ jobs_run = Len(job_pool)))
    /\ [][(pc' = "reduce" /\ pc # "reduce") => (pc = "execute" /\ AllJobsFinished)]_vars
    /\ [][(outcome'.tag = "Ok" /\ outcome.tag # "Ok") =>
             (pc = "reduce" /\ BagCardinality(parts) = 1 /\ identities >= 1
                 /\ owner = "round" /\ owner' = "caller" /\ pc' = "returned")]_vars
    /\ [](owner = "round" <=> pc \in { "execute", "reduce" })
    /\ (pc \in { "execute", "reduce" }) ~> (pc = "returned")

C18_Witness ==
    /\ Returned /\ FirstCall
    /\ outcome.tag = "Ok"
    /\ owner = "caller"
    /\ jobs_run = 3
    /\ AllJobsFinished
    /\ BagCardinality(parts) = 1
    /\ NumCircuits = 2


\* ------------------------------------------------------------------------
\* C19
\* ------------------------------------------------------------------------

\* the state the caller handed in: round 1 left every witness slot filled
IncomingState == StateFor(input.shape, input.witness)

\* a prover state with the three witness slots of every circuit emptied and
\* everything else as it is
WithSlotsEmptied(st) ==
    [st EXCEPT !.circuit_specific_states =
        [c \in DOMAIN st.circuit_specific_states |->
            [st.circuit_specific_states[c] EXCEPT !.z_a = None, !.z_b = None, !.z_c = None]]]

\* a job has written its result: one more result slot is filled
JobWrote(k) == ~results[k].some /\ results'[k].some

\* C19: a successful prover_second_round returns the incoming state with
\* nothing changed but the witness slots z_a, z_b, z_c of every circuit, which
\* are empty: the circuits (identifier and FFT/IFFT tables), each circuit's
\* constraint domain and the maximum constraint domain are those of the
\* incoming state.  A job writes its own result slot and nothing another job
\* reads: the state, the job list with the captured inputs, the message and
\* the other results are left alone, and the result is that of the job's
\* captured inputs whatever the other jobs have done.
C19_FrameEffect ==
    /\ [](outcome.tag = "Ok" =>
            /\ state = WithSlotsEmptied(IncomingState)
            /\ DOMAIN state.circuit_specific_states = DOMAIN IncomingState.circuit_specific_states
            /\ \A c \in DOMAIN state.circuit_specific_states :
                    /\ state.circuit_specific_states[c].circuit
                            = IncomingState.circuit_specific_states[c].circuit
                    /\ state.circuit_specific_states[c].constraint_domain
                            = IncomingState.circuit_specific_states[c].constraint_domain
            /\ state.max_constraint_domain = IncomingState.max_constraint_domain)
    /\ [][\A k \in 1 .. Len(results) :
            (pc = "execute" /\ Len(results') = Len(results) /\ JobWrote(k)) =>
                /\ results' = [results EXCEPT ![k] = Some(RunJobBody(job_pool[k]))]
                /\ state' = state
                /\ job_pool' = job_pool
                /\ input' = input
                /\ parts' = parts
                /\ outcome' = outcome]_vars
    /\ [][(pc \in { "execute", "reduce" }) => (state' = state /\ input' = input)]_vars

\* a round over two circuits and three jobs has returned its oracles
C19_Witness ==
    /\ pc = "returned"
    /\ outcome.tag = "Ok"
    /\ Len(state.circuit_specific_states) = 2
    /\ jobs_run = 3
    /\ IncomingState # state

=============================================================================
